---- MODULE Spec2Model ----
(***************************************************************************)
(* socialbondpay-backend: the two Express servers of the repository,       *)
(*   "esm" = src/server.js          (ES modules)                           *)
(*   "cjs" = src/unnamed/part_000   (CommonJS)                             *)
(* run side by side on the same stream of HTTP requests, each with its own *)
(* payments table and its own gateway client.  A step is a step of one     *)
(* request in both servers: its arrival and the synchronous part of its    *)
(* pipeline, the settling of the call its handlers await, their            *)
(* resumption.  Requests interleave freely at the awaits.                  *)
(*                                                                         *)
(* Every modelled request carries Content-Type: application/json, which is *)
(* what the gateway sends and what both JSON body parsers match.           *)
(***************************************************************************)
EXTENDS Integers, Sequences, FiniteSets, TLC

\* How many HTTP requests are delivered in one run.
MaxRequests == 2

Impls == {"esm", "cjs"}

(***************************************************************************)
(* JavaScript values.  Numbers are fixed point, in thousandths, so that    *)
(* amount * 100 and Math.round are not the identity.                       *)
(***************************************************************************)
JUndef == [t |-> "undefined", n |-> 0, s |-> ""]
JNull == [t |-> "null", n |-> 0, s |-> ""]
JNaN == [t |-> "nan", n |-> 0, s |-> ""]
JNum(k) == [t |-> "number", n |-> k * 1000, s |-> ""]
JFrac(m) == [t |-> "number", n |-> m, s |-> ""]
JStr(x) == [t |-> "string", n |-> 0, s |-> x]

\* !!v
Truthy(v) ==
    CASE v.t = "undefined" -> FALSE
      [] v.t = "null" -> FALSE
      [] v.t = "nan" -> FALSE
      [] v.t = "number" -> v.n # 0
      [] v.t = "string" -> v.s # ""

\* a || b
Or(a, b) == IF Truthy(a) THEN a ELSE b

\* The numeric strings the inputs use, with their value in thousandths.
NumericStrings == [x \in {"100"} |-> 100 * 1000]

\* ToNumber(v), the coercion behind <=, * and isNaN
ToNumber(v) ==
    CASE v.t = "number" -> v
      [] v.t = "nan" -> JNaN
      [] v.t = "undefined" -> JNaN
      [] v.t = "null" -> JFrac(0)
      [] v.t = "string" ->
            IF v.s = "" THEN JFrac(0)
            ELSE IF v.s \in DOMAIN NumericStrings THEN JFrac(NumericStrings[v.s])
            ELSE JNaN

\* v <= 0 (false when either side is NaN)
LeZero(v) == ToNumber(v).t = "number" /\ ToNumber(v).n <= 0

\* isNaN(v)
IsNaN(v) == ToNumber(v).t = "nan"

\* v * 100
Times100(v) ==
    IF ToNumber(v).t = "nan" THEN JNaN ELSE JFrac(ToNumber(v).n * 100)

\* Math.round(v): the nearest integer, halves towards +infinity
MathRound(v) ==
    IF v.t = "nan" THEN JNaN ELSE JFrac(((v.n + 500) \div 1000) * 1000)

\* A destructuring default: used only when the property is undefined.
Default(v, d) == IF v.t = "undefined" THEN d ELSE v

(***************************************************************************)
(* Webhook events, request bodies and signatures.                          *)
(***************************************************************************)
NoEntity ==
    [t |-> "undefined", status |-> JUndef, amount |-> JUndef,
     currency |-> JUndef, email |-> JUndef, contact |-> JUndef]
NullEntity == [NoEntity EXCEPT !.t = "null"]
Entity(st, am, cu, em, co) ==
    [t |-> "object", status |-> st, amount |-> am,
     currency |-> cu, email |-> em, contact |-> co]

NoPayment == [t |-> "undefined", entity |-> NoEntity]
NoPayload == [t |-> "undefined", payment |-> NoPayment]
PayloadOf(e) == [t |-> "object", payment |-> [t |-> "object", entity |-> e]]
EmptyPayload == [t |-> "object", payment |-> NoPayment]
EmptyPaymentPayload ==
    [t |-> "object", payment |-> [t |-> "object", entity |-> NoEntity]]

\* A JSON document: the properties the handlers read, each of them optional.
Event(id, ev, pl) ==
    [id |-> id, event |-> ev, payload |-> pl, amount |-> JUndef, currency |-> JUndef]
OrderBody(am, cu) ==
    [id |-> JUndef, event |-> JUndef, payload |-> NoPayload, amount |-> am, currency |-> cu]
EmptyEvent == Event(JUndef, JUndef, NoPayload)

\* The bytes of a body: a document in one of its serializations, or bytes
\* that are no JSON document at all.
Bytes(doc, fmt) == [wf |-> TRUE, fmt |-> fmt, doc |-> doc]
Malformed == [wf |-> FALSE, fmt |-> "garbage", doc |-> EmptyEvent]
NoBytes == [wf |-> FALSE, fmt |-> "none", doc |-> EmptyEvent]

\* JSON.parse of well-formed bytes: the formatting is lost.
JSONParse(bytes) == bytes.doc

\* JSON.stringify: always the compact serialization.
JSONStringify(doc) == Bytes(doc, "compact")

\* crypto.createHmac("sha256", key).update(bytes).digest("hex"): a
\* collision-free digest of the key and the bytes.
HmacHex(key, bytes) == [t |-> "string", key |-> key, msg |-> bytes]
NoHeader == [t |-> "undefined", key |-> "", msg |-> NoBytes]

(***************************************************************************)
(* HTTP requests, responses and the calls a handler awaits.                *)
(***************************************************************************)
Request(route, sig, bytes) == [route |-> route, sig |-> sig, bytes |-> bytes]

Response(status, body) == [status |-> status, body |-> body]
NoResponse == Response(0, "")

Row(id, st, am, cu, em, co) ==
    [event_id |-> id, status |-> st, amount |-> am,
     currency |-> cu, email |-> em, contact |-> co]
NoRow == Row(JUndef, JUndef, JUndef, JUndef, JUndef, JUndef)

Options(am, cu, receipt) == [amount |-> am, currency |-> cu, receipt |-> receipt]
NoOptions == Options(JUndef, JUndef, 0)

NoCall == [kind |-> "none", row |-> NoRow, options |-> NoOptions]
InsertCall(row) == [kind |-> "insert", row |-> row, options |-> NoOptions]
OrderCall(opts) == [kind |-> "order", row |-> NoRow, options |-> opts]

\* What the synchronous part of a request's pipeline comes to: the response
\* it sent (if it sent one), the call it is suspended on (if it awaits one)
\* and the steps it took, in order.
Outcome(resp, call, log) == [resp |-> resp, call |-> call, log |-> log]

\* req.body as the middleware leaves it, with body-parser's req._body mark.
ParsedBody(doc) == [t |-> "object", parsed |-> TRUE, doc |-> doc, bytes |-> NoBytes]
RawBody(bytes) == [t |-> "buffer", parsed |-> TRUE, doc |-> EmptyEvent, bytes |-> bytes]
Unread == [t |-> "none", parsed |-> FALSE, doc |-> EmptyEvent, bytes |-> NoBytes]
ParseError == [t |-> "error", parsed |-> FALSE, doc |-> EmptyEvent, bytes |-> NoBytes]

\* node-postgres sends an undefined parameter as NULL.
PgParam(v) == IF v.t = "undefined" THEN JNull ELSE v

\* event.payload?.payment?.entity
PaymentEntityOf(event) ==
    IF event.payload.t # "object" THEN NoEntity
    ELSE IF event.payload.payment.t # "object" THEN NoEntity
    ELSE event.payload.payment.entity

\* paymentEntity?.field
Opt(entity, field) == IF entity.t = "object" THEN entity[field] ELSE JUndef

(***************************************************************************)
(* src/server.js                                                           *)
(***************************************************************************)
\* app.use(bodyParser.json()): parses the body unless it is already parsed;
\* bytes that are no JSON make it pass an error on, which Express answers
\* with 400 before any route runs.
BodyParserJson(body, bytes) ==
    IF body.parsed THEN body
    ELSE IF bytes.wf THEN ParsedBody(JSONParse(bytes))
    ELSE ParseError

\* The row the handler offers to pool.query.
RowESM(event) ==
    LET paymentEntity == PaymentEntityOf(event)
    IN  Row(PgParam(event.id),
            PgParam(Or(Opt(paymentEntity, "status"), JStr("created"))),
            PgParam(Or(Opt(paymentEntity, "amount"), JFrac(0))),
            PgParam(Or(Opt(paymentEntity, "currency"), JStr("INR"))),
            PgParam(Or(Opt(paymentEntity, "email"), JNull)),
            PgParam(Or(Opt(paymentEntity, "contact"), JNull)))

\* POST /webhook up to its await.
WebhookESM(req, secret) ==
    LET reqBody == BodyParserJson(Unread, req.bytes)
        body == JSONStringify(reqBody.doc)
        expectedSignature == HmacHex(secret.s, body)
    IN  IF reqBody.t = "error"
        THEN Outcome(Response(400, "SyntaxError"), NoCall, <<"json.reject">>)
        ELSE IF secret.t # "string"
        THEN \* createHmac throws on an undefined key
             Outcome(Response(500, "Webhook error"), NoCall, <<"json.parse", "throw">>)
        ELSE IF req.sig # expectedSignature
        THEN Outcome(Response(400, "Invalid signature"), NoCall,
                     <<"json.parse", "hmac.reserialized", "mismatch">>)
        ELSE Outcome(NoResponse, InsertCall(RowESM(reqBody.doc)),
                     <<"json.parse", "hmac.reserialized", "verified">>)

\* POST /create-order up to its await; now is Date.now().
CreateOrderESM(req, now) ==
    LET reqBody == BodyParserJson(Unread, req.bytes)
        amount == reqBody.doc.amount
        currency == Default(reqBody.doc.currency, JStr("INR"))
    IN  IF reqBody.t = "error"
        THEN Outcome(Response(400, "SyntaxError"), NoCall, <<"json.reject">>)
        ELSE IF ~Truthy(amount) \/ LeZero(amount)
        THEN Outcome(Response(400, "Invalid amount"), NoCall, <<"json.parse">>)
        ELSE Outcome(NoResponse, OrderCall(Options(Times100(amount), currency, now)),
                     <<"json.parse">>)

\* GET /
RootESM == Outcome(Response(200, "SocialBond Backend is running!"), NoCall, << >>)

(***************************************************************************)
(* src/unnamed/part_000                                                    *)
(***************************************************************************)
\* app.use(express.json()), registered for every route.
ExpressJson(body, bytes) ==
    IF body.parsed THEN body
    ELSE IF bytes.wf THEN ParsedBody(JSONParse(bytes))
    ELSE ParseError

\* bodyParser.raw({ type: "application/json" }) on the webhook route: reads
\* the bytes into a Buffer unless the body is already parsed.
BodyParserRaw(body, bytes) == IF body.parsed THEN body ELSE RawBody(bytes)

RowCJS(event) ==
    LET paymentEntity ==
            IF PaymentEntityOf(event).t = "object" THEN PaymentEntityOf(event)
            ELSE NullEntity
    IN  Row(PgParam(event.id),
            PgParam(Or(Opt(paymentEntity, "status"), Or(event.event, JStr("unknown")))),
            PgParam(Or(Opt(paymentEntity, "amount"), JFrac(0))),
            PgParam(Or(Opt(paymentEntity, "currency"), JStr("INR"))),
            PgParam(Or(Opt(paymentEntity, "email"), JNull)),
            PgParam(Or(Opt(paymentEntity, "contact"), JNull)))

\* The route's handler, given req.body as the middleware left it.
WebhookHandlerCJS(reqBody, signature, webhookSecret, steps) ==
    LET expected == HmacHex(webhookSecret.s, reqBody.bytes)
    IN  IF signature.t = "undefined" \/ ~Truthy(webhookSecret)
        THEN Outcome(Response(400, "Missing signature or webhook secret"), NoCall,
                     steps \o <<"missing">>)
        ELSE IF reqBody.t # "buffer"
        THEN \* hmac.update throws on anything but a string or a Buffer
             Outcome(Response(500, "Webhook error"), NoCall, steps \o <<"throw">>)
        ELSE IF signature # expected
        THEN Outcome(Response(400, "Invalid signature"), NoCall,
                     steps \o <<"hmac.raw", "mismatch">>)
        ELSE IF ~reqBody.bytes.wf
        THEN \* JSON.parse throws
             Outcome(Response(500, "Webhook error"), NoCall,
                     steps \o <<"hmac.raw", "verified", "json.reject">>)
        ELSE Outcome(NoResponse, InsertCall(RowCJS(JSONParse(reqBody.bytes))),
                     steps \o <<"hmac.raw", "verified", "json.parse">>)

\* POST /webhook up to its await: express.json(), bodyParser.raw, the handler.
WebhookCJS(req, secret) ==
    LET afterJson == ExpressJson(Unread, req.bytes)
        afterRaw == BodyParserRaw(afterJson, req.bytes)
    IN  IF afterJson.t = "error"
        THEN Outcome(Response(400, "SyntaxError"), NoCall, <<"json.reject">>)
        ELSE WebhookHandlerCJS(afterRaw, req.sig, secret,
                               IF afterJson.t = "object" THEN <<"json.parse">> ELSE << >>)

CreateOrderCJS(req, now) ==
    LET reqBody == ExpressJson(Unread, req.bytes)
        amount == reqBody.doc.amount
        currency == Default(reqBody.doc.currency, JStr("INR"))
    IN  IF reqBody.t = "error"
        THEN Outcome(Response(400, "SyntaxError"), NoCall, <<"json.reject">>)
        ELSE IF ~Truthy(amount) \/ IsNaN(amount) \/ LeZero(amount)
        THEN Outcome(Response(400, "Invalid amount"), NoCall, <<"json.parse">>)
        ELSE Outcome(NoResponse,
                     OrderCall(Options(MathRound(Times100(amount)), currency, now)),
                     <<"json.parse">>)

RootCJS == Outcome(Response(200, "SocialBond Backend is running (CommonJS)!"), NoCall, << >>)

(***************************************************************************)
(* The payments table and the gateway.                                     *)
(***************************************************************************)
StoredRow(row, now) ==
    [event_id |-> row.event_id, status |-> row.status, amount |-> row.amount,
     currency |-> row.currency, email |-> row.email, contact |-> row.contact,
     created_at |-> now]

\* INSERT INTO payments ... VALUES (..., NOW()) ON CONFLICT (event_id) DO
\* NOTHING, on a table whose event_id is UNIQUE: a row whose event_id is
\* already there is dropped; NULL conflicts with nothing.
InsertAlways(rows, row, now) == Append(rows, StoredRow(row, now))

InsertOrUpdate(rows, row, now) ==
    IF row.event_id # JNull /\ \E k \in 1..Len(rows) : rows[k].event_id = row.event_id
    THEN [k \in 1..Len(rows) |->
            IF rows[k].event_id = row.event_id THEN StoredRow(row, now) ELSE rows[k]]
    ELSE Append(rows, StoredRow(row, now))

InsertOnConflictDoNothing(rows, row, now) ==
    IF row.event_id # JNull /\ \E k \in 1..Len(rows) : rows[k].event_id = row.event_id
    THEN rows
    ELSE Append(rows, StoredRow(row, now))

(***************************************************************************)
(* The requests delivered.                                                 *)
(***************************************************************************)
Secret == "whsec_K"

Captured ==
    Entity(JStr("captured"), JNum(50000), JStr("INR"), JStr("a@b.com"),
           JStr("+911234567890"))
Failed ==
    Entity(JStr("failed"), JNum(700), JStr("USD"), JStr("c@d.com"), JStr("+15550100"))
Bare == Entity(JUndef, JUndef, JUndef, JUndef, JUndef)

Events ==
    { Event(JStr("evt_1"), JUndef, PayloadOf(Captured)),
      Event(JStr("evt_1"), JStr("payment.failed"), PayloadOf(Failed)),
      Event(JStr("evt_2"), JStr("order.paid"), NoPayload),
      Event(JStr("evt_2"), JUndef, EmptyPayload),
      Event(JStr("evt_3"), JStr("order.paid"), EmptyPaymentPayload),
      Event(JUndef, JStr("payment.authorized"), PayloadOf(Bare)) }

\* Bodies: every event as JSON.stringify would write it, the first two also
\* with other whitespace, and bytes that are no JSON.
WebhookBodies ==
    { Bytes(e, "compact") : e \in Events }
    \cup { Bytes(e, "spaced") : e \in { x \in Events : x.id = JStr("evt_1") } }
    \cup { Malformed }

\* X-Razorpay-Signature: absent, the HMAC of the bytes sent, the HMAC of
\* their re-serialization, or an HMAC under another key.
SignaturesFor(bytes) ==
    { NoHeader, HmacHex(Secret, bytes), HmacHex("whsec_other", bytes) }
    \cup { HmacHex(Secret, JSONStringify(JSONParse(bytes))) : x \in { y \in {bytes} : y.wf } }

WebhookRequests ==
    UNION { { Request("webhook", sg, b) : sg \in SignaturesFor(b) } : b \in WebhookBodies }

Amounts ==
    { JUndef, JNull, JNum(0), JNum(-5), JNum(100), JFrac(1234), JStr("abc"), JStr("100") }

\* Every amount with the currency omitted, and 100 in another currency.
OrderRequests ==
    { Request("create-order", NoHeader, Bytes(OrderBody(a, JUndef), "compact")) :
        a \in Amounts }
    \cup { Request("create-order", NoHeader, Bytes(OrderBody(JNum(100), JStr("USD")), "compact")),
           Request("create-order", NoHeader, Malformed) }

RootRequest == Request("root", NoHeader, NoBytes)

(***************************************************************************)
(* State.                                                                  *)
(***************************************************************************)
VARIABLES
    secret,   \* process.env.RAZORPAY_WEBHOOK_SECRET
    reqs,     \* the requests delivered so far, in order of arrival
    pc,       \* pc[m][i]: where implementation m is with request i
    resp,     \* resp[m][i]: the response m sent to request i
    call,     \* call[m][i]: the call m issued for request i
    log,      \* log[m][i]: the steps m's pipeline took on request i
    store     \* store[m]: the rows of m's payments table, oldest first

vars == <<secret, reqs, pc, resp, call, log, store>>

Init ==
    /\ secret \in { JUndef, JStr(Secret) }
    /\ reqs = << >>
    /\ pc = [m \in Impls |-> << >>]
    /\ resp = [m \in Impls |-> << >>]
    /\ call = [m \in Impls |-> << >>]
    /\ log = [m \in Impls |-> << >>]
    /\ store = [m \in Impls |-> << >>]

\* Request i is suspended in m on a call of this kind.
Awaits(m, i, kind) == pc[m][i] = "await" /\ call[m][i].kind = kind

\* The state after request req has arrived and each server has run its
\* pipeline on it, up to the first await or to the response: out[m] is what
\* server m's pipeline came to.
Arrive(req, out) ==
    /\ reqs' = Append(reqs, req)
    /\ pc' = [m \in Impls |->
                Append(pc[m], IF out[m].call.kind = "none" THEN "done" ELSE "await")]
    /\ resp' = [m \in Impls |-> Append(resp[m], out[m].resp)]
    /\ call' = [m \in Impls |-> Append(call[m], out[m].call)]
    /\ log' = [m \in Impls |-> Append(log[m], out[m].log)]

PostWebhook ==
    /\ Len(reqs) < MaxRequests
    /\ \E req \in WebhookRequests :
          Arrive(req, [m \in Impls |->
                         IF m = "esm" THEN WebhookESM(req, secret)
                         ELSE WebhookCJS(req, secret)])
    /\ UNCHANGED <<secret, store>>

PostCreateOrder ==
    /\ Len(reqs) < MaxRequests
    /\ \E req \in OrderRequests :
          Arrive(req, [m \in Impls |->
                         IF m = "esm" THEN CreateOrderESM(req, Len(reqs) + 1)
                         ELSE CreateOrderCJS(req, Len(reqs) + 1)])
    /\ UNCHANGED <<secret, store>>

GetRoot ==
    /\ Len(reqs) < MaxRequests
    /\ Arrive(RootRequest, [m \in Impls |-> IF m = "esm" THEN RootESM ELSE RootCJS])
    /\ UNCHANGED <<secret, store>>

\* The database runs the insert of request i.
StoreInserts ==
    \E i \in 1..Len(reqs) :
        /\ \E m \in Impls : Awaits(m, i, "insert")
        /\ store' = [m \in Impls |->
                       IF Awaits(m, i, "insert")
                       THEN InsertOnConflictDoNothing(store[m], call[m][i].row, Len(reqs))
                       ELSE store[m]]
        /\ pc' = [m \in Impls |->
                    IF Awaits(m, i, "insert") THEN [pc[m] EXCEPT ![i] = "resolved"]
                    ELSE pc[m]]
        /\ UNCHANGED <<secret, reqs, resp, call, log>>

\* pool.query rejects (connection lost, constraint violated): no row.
StoreRejects ==
    \E i \in 1..Len(reqs) :
        /\ \E m \in Impls : Awaits(m, i, "insert")
        /\ pc' = [m \in Impls |->
                    IF Awaits(m, i, "insert") THEN [pc[m] EXCEPT ![i] = "rejected"]
                    ELSE pc[m]]
        /\ UNCHANGED <<secret, reqs, resp, call, log, store>>

\* razorpay.orders.create resolves with an order.
GatewayCreates ==
    \E i \in 1..Len(reqs) :
        /\ \E m \in Impls : Awaits(m, i, "order")
        /\ pc' = [m \in Impls |->
                    IF Awaits(m, i, "order") THEN [pc[m] EXCEPT ![i] = "resolved"]
                    ELSE pc[m]]
        /\ UNCHANGED <<secret, reqs, resp, call, log, store>>

\* razorpay.orders.create rejects.
GatewayRejects ==
    \E i \in 1..Len(reqs) :
        /\ \E m \in Impls : Awaits(m, i, "order")
        /\ pc' = [m \in Impls |->
                    IF Awaits(m, i, "order") THEN [pc[m] EXCEPT ![i] = "rejected"]
                    ELSE pc[m]]
        /\ UNCHANGED <<secret, reqs, resp, call, log, store>>

\* The response a handler sends once its awaited call has settled.
AfterAwait(kind, settled) ==
    CASE kind = "insert" /\ settled = "resolved" -> Response(200, "ok")
      [] kind = "insert" /\ settled = "rejected" -> Response(500, "Webhook error")
      [] kind = "order" /\ settled = "resolved" -> Response(200, "order")
      [] kind = "order" /\ settled = "rejected" -> Response(500, "error.message")

\* The handlers of request i resume after their await and respond.
Resume ==
    \E i \in 1..Len(reqs) :
        /\ \E m \in Impls : pc[m][i] \in {"resolved", "rejected"}
        /\ resp' = [m \in Impls |->
                      IF pc[m][i] \in {"resolved", "rejected"}
                      THEN [resp[m] EXCEPT ![i] = AfterAwait(call[m][i].kind, pc[m][i])]
                      ELSE resp[m]]
        /\ pc' = [m \in Impls |->
                    IF pc[m][i] \in {"resolved", "rejected"}
                    THEN [pc[m] EXCEPT ![i] = "done"]
                    ELSE pc[m]]
        /\ UNCHANGED <<secret, reqs, call, log, store>>

Next ==
    \/ PostWebhook
    \/ PostCreateOrder
    \/ GetRoot
    \/ StoreInserts
    \/ StoreRejects
    \/ GatewayCreates
    \/ GatewayRejects
    \/ Resume

Spec == Init /\ [][Next]_vars

(***************************************************************************)
(* Properties.                                                             *)
(***************************************************************************)
Delivered == 1..Len(reqs)
IsWebhook(i) == reqs[i].route = "webhook"
IsOrder(i) == reqs[i].route = "create-order"
Configured == secret = JStr(Secret)
Steps(m, i) == { log[m][i][k] : k \in 1..Len(log[m][i]) }
RowsFor(m, id) == { k \in 1..Len(store[m]) : store[m][k].event_id = id }
\* The HMAC of the bytes request i was sent with.
RawHmac(i) == HmacHex(Secret, reqs[i].bytes)
\* The HMAC of the re-serialization of its parsed body.
ReserializedHmac(i) == HmacHex(Secret, JSONStringify(JSONParse(reqs[i].bytes)))

\* C1: in each implementation's payments table no two rows carry the same
\* event_id, whatever the order in which deliveries arrive, their inserts run
\* and their handlers resume.  (A row stored for an event without id has
\* event_id NULL, which is no event_id and conflicts with nothing.)
C1_UniqueEventId ==
    \A m \in Impls : \A a, b \in 1..Len(store[m]) :
        (a # b /\ store[m][a].event_id # JNull)
            => store[m][a].event_id # store[m][b].event_id

\* Two handlers of deliveries with the same event_id are both suspended at
\* their await, both inserts have run, and the table holds one row for it.
C1_Witness ==
    \E i, j \in Delivered :
        /\ i # j
        /\ pc["esm"][i] = "resolved" /\ pc["esm"][j] = "resolved"
        /\ call["esm"][i].kind = "insert" /\ call["esm"][j].kind = "insert"
        /\ call["esm"][i].row.event_id = call["esm"][j].row.event_id
        /\ call["esm"][i].row.event_id # JNull
        /\ Cardinality(RowsFor("esm", call["esm"][i].row.event_id)) = 1

\* C7: no step of the system changes or removes a stored row: every row of
\* either table is, after any step, still at its place with every field as
\* first written.
C7_RowsNeverChange ==
    [][\A m \in Impls : \A k \in 1..Len(store[m]) :
          Len(store'[m]) >= k /\ store'[m][k] = store[m][k]]_vars

\* A correctly signed webhook whose event_id is already stored, with another
\* status, amount, currency, email and contact, has been answered 200, and
\* the stored row differs from the one it offered in each of these fields.
C7_Witness ==
    \E i \in Delivered : \E k \in 1..Len(store["esm"]) :
        /\ pc["esm"][i] = "done" /\ resp["esm"][i] = Response(200, "ok")
        /\ call["esm"][i].kind = "insert"
        /\ store["esm"][k].event_id = call["esm"][i].row.event_id
        /\ store["esm"][k].status # call["esm"][i].row.status
        /\ store["esm"][k].amount # call["esm"][i].row.amount
        /\ store["esm"][k].currency # call["esm"][i].row.currency
        /\ store["esm"][k].email # call["esm"][i].row.email
        /\ store["esm"][k].contact # call["esm"][i].row.contact

\* C2: with the secret configured, each implementation lets a webhook
\* request past its signature check exactly when the header is the hex HMAC
\* of the secret over the bytes received (not over their re-serialization).
C2_VerifiedIffRawHmac ==
    \A m \in Impls : \A i \in Delivered :
        (IsWebhook(i) /\ Configured)
            => ("verified" \in Steps(m, i) <=> reqs[i].sig = RawHmac(i))

\* C3: a webhook with a JSON body carrying an id, signed over its bytes, is
\* answered 200 {"status":"ok"} by the server that registers express.json()
\* ahead of the route, and once answered its table holds exactly one row for
\* that id, with the fields of the event.
C3_SignedWebhookStored ==
    \A i \in Delivered :
        (/\ IsWebhook(i) /\ Configured /\ reqs[i].bytes.wf
         /\ JSONParse(reqs[i].bytes).id # JUndef
         /\ reqs[i].sig = RawHmac(i)
         /\ pc["cjs"][i] = "done")
            => /\ resp["cjs"][i] = Response(200, "ok")
               /\ Cardinality(RowsFor("cjs", JSONParse(reqs[i].bytes).id)) = 1

\* C4: a webhook without signature header, or arriving while the secret is
\* not configured, is answered 400 and no insert is issued for it, in each
\* implementation.
C4_MissingAuthIs400 ==
    \A m \in Impls : \A i \in Delivered :
        (IsWebhook(i) /\ pc[m][i] = "done" /\ (reqs[i].sig = NoHeader \/ ~Configured))
            => (resp[m][i].status = 400 /\ call[m][i].kind = "none")

\* C5: a webhook whose signature header differs from the HMAC of the secret
\* over its bytes is answered 400 and no insert is issued for it.
C5_MismatchIs400 ==
    \A m \in Impls : \A i \in Delivered :
        (/\ IsWebhook(i) /\ Configured
         /\ reqs[i].sig # NoHeader /\ reqs[i].sig # RawHmac(i))
            => /\ call[m][i].kind = "none"
               /\ pc[m][i] = "done" => resp[m][i].status = 400

\* The amount is a number, or a string that reads as one.
Numeric(v) == v.t \in {"number", "string"} /\ ~IsNaN(v) /\ v # JStr("")

\* C6: in each implementation POST /create-order calls the gateway exactly
\* when the amount is present, numeric and above zero; every other amount is
\* answered 400 "Invalid amount"; amount 100 without currency reaches the
\* gateway as amount 10000, currency "INR".
C6_GatewayIffValidAmount ==
    \A m \in Impls : \A i \in Delivered :
        (IsOrder(i) /\ reqs[i].bytes.wf)
            => LET amount == JSONParse(reqs[i].bytes).amount
                   currency == JSONParse(reqs[i].bytes).currency
                   valid == Numeric(amount) /\ ~LeZero(amount)
               IN  /\ call[m][i].kind = "order" <=> valid
                   /\ ~valid => (pc[m][i] = "done"
                                 /\ resp[m][i] = Response(400, "Invalid amount"))
                   /\ (amount = JNum(100) /\ currency = JUndef)
                        => (call[m][i].options.amount = JNum(10000)
                            /\ call[m][i].options.currency = JStr("INR"))

\* "v if present, else d"
Else(v, d) == IF v.t \in {"undefined", "null"} THEN d ELSE v

\* The row the fallbacks of the specification give for an event.
DocumentedRow(event) ==
    LET e == PaymentEntityOf(event)
    IN  Row(PgParam(event.id),
            Else(Opt(e, "status"), Else(event.event, JStr("unknown"))),
            Else(Opt(e, "amount"), JFrac(0)),
            Else(Opt(e, "currency"), JStr("INR")),
            Else(Opt(e, "email"), JNull),
            Else(Opt(e, "contact"), JNull))

\* C8: the row either implementation offers to the store for a verified
\* event is the documented one: status from the entity, else the event type,
\* else "unknown"; amount else 0; currency else "INR"; email, contact else
\* null.
C8_RowHasDocumentedFallbacks ==
    \A m \in Impls : \A i \in Delivered :
        call[m][i].kind = "insert"
            => call[m][i].row = DocumentedRow(JSONParse(reqs[i].bytes))

\* C9: along a webhook request's pipeline no JSON parse of the body, and no
\* rejection of it as unparseable, comes before its signature was verified
\* against the raw bytes.
C9_ParseOnlyAfterVerify ==
    \A m \in Impls : \A i \in Delivered :
        IsWebhook(i)
            => \A k \in 1..Len(log[m][i]) :
                   log[m][i][k] \in {"json.parse", "json.reject"}
                       => \E h \in 1..(k - 1) :
                              log[m][i][h] = "verified" /\ "hmac.raw" \in Steps(m, i)

\* The bytes fed to the HMAC decide request i: its signature matches one of
\* the raw and the re-serialized HMAC and not the other.
HmacBytesDecide(i) ==
    /\ IsWebhook(i) /\ reqs[i].bytes.wf
    /\ (reqs[i].sig = RawHmac(i)) # (reqs[i].sig = ReserializedHmac(i))

\* C10: on the same requests the two implementations answer alike, issue
\* the same gateway calls and inserts, and end with the same table, except
\* for requests that the bytes fed to the HMAC decide.
C10_ImplementationsAgree ==
    /\ \A i \in Delivered :
          ((IsWebhook(i) \/ IsOrder(i)) /\ ~HmacBytesDecide(i)
           /\ pc["esm"][i] = "done" /\ pc["cjs"][i] = "done")
              => (resp["esm"][i] = resp["cjs"][i] /\ call["esm"][i] = call["cjs"][i])
    /\ (\A i \in Delivered :
           ~HmacBytesDecide(i) /\ pc["esm"][i] = "done" /\ pc["cjs"][i] = "done")
          => store["esm"] = store["cjs"]

====
